---- MODULE Spec2Model ----
(***************************************************************************)
(* Model of the workout-plan execution sequencer.                          *)
(*                                                                         *)
(*   SupersetExecutorV3   src/scripts/simulate-group2-with-echo.mjs        *)
(*                        lines 252-534                                    *)
(*   validateGroupConfiguration   src/unnamed/part_001, lines 12-79       *)
(*   simulate (the driver)        src/scripts/simulate-plan.js, 82-142     *)
(*   SupersetExecutorV2Sim        src/scripts/simulate-group2-with-echo.mjs *)
(*                                lines 12-138, and its timeline loop,     *)
(*                                lines 183-232                            *)
(*   the nested-groups loop       src/unnamed/part_002, lines 180-222      *)
(*                                                                         *)
(* Plan indices are 0-based as in the source: planItems and completedSets  *)
(* are functions on 0..n-1.  Arrays the engine returns (getGroupExercises, *)
(* groupExercises) are sequences.  A JavaScript value held by a plan field *)
(* or passed as an argument is a tagged record (undefined, a string as the *)
(* sequence of its characters, or a number); Number(), String(), trim()    *)
(* and truthiness are modelled by what they do on those values.            *)
(***************************************************************************)
EXTENDS Integers, Sequences, FiniteSets

(***************************************************************************)
(* Bounds of the model.                                                    *)
(***************************************************************************)
MaxItems == 3

MaxSets == 2

(***************************************************************************)
(* JavaScript values.                                                      *)
(***************************************************************************)
Undef == [t |-> "undef", s |-> <<>>, n |-> 0]

Str(chars) == [t |-> "str", s |-> chars, n |-> 0]

Num(k) == [t |-> "num", s |-> <<>>, n |-> k]

\* The not-a-number result of Number().
NaN == [nan |-> TRUE, n |-> 0]

Finite(k) == [nan |-> FALSE, n |-> k]

Digits == <<"0", "1", "2", "3", "4", "5", "6", "7", "8", "9">>

IsDigit(c) == \E d \in 1..10 : Digits[d] = c

DigitValue(c) == (CHOOSE d \in 1..10 : Digits[d] = c) - 1

\* String.prototype.trim: strips the white space at both ends.
RECURSIVE TrimStart(_)
TrimStart(s) ==
    IF s # <<>> /\ Head(s) = " " THEN TrimStart(Tail(s)) ELSE s

RECURSIVE TrimEnd(_)
TrimEnd(s) ==
    IF s # <<>> /\ s[Len(s)] = " " THEN TrimEnd(SubSeq(s, 1, Len(s) - 1)) ELSE s

Trim(s) == TrimEnd(TrimStart(s))

\* The value of a string of decimal digits.
RECURSIVE DecimalValue(_)
DecimalValue(s) ==
    IF s = <<>> THEN 0
    ELSE 10 * DecimalValue(SubSeq(s, 1, Len(s) - 1)) + DigitValue(s[Len(s)])

\* Number(v): undefined is NaN; a string is trimmed, "" is 0, decimal digits
\* are their value and anything else is NaN.
ToNumber(v) ==
    CASE v.t = "undef" -> NaN
      [] v.t = "num" -> Finite(v.n)
      [] v.t = "str" ->
            LET r == Trim(v.s) IN
            IF \A k \in 1..Len(r) : IsDigit(r[k]) THEN Finite(DecimalValue(r)) ELSE NaN

\* Number(v) || d: NaN and 0 are falsy.
NumberOr(v, d) ==
    LET x == ToNumber(v) IN IF x.nan \/ x.n = 0 THEN d ELSE x.n

\* Truthiness: undefined, "" and 0 are falsy.
Truthy(v) ==
    CASE v.t = "undef" -> FALSE
      [] v.t = "num" -> v.n # 0
      [] v.t = "str" -> v.s # <<>>

\* String(v) of a string or of a number 0..9.
StringOf(v) ==
    CASE v.t = "str" -> v.s
      [] v.t = "num" -> <<Digits[v.n + 1]>>
      [] v.t = "undef" -> <<"u", "n", "d", "e", "f", "i", "n", "e", "d">>

(***************************************************************************)
(* Plans.                                                                  *)
(***************************************************************************)
\* The values given to the sets field: missing, non-numeric, MinSets..1 and
\* MaxSets.
MinSets == 0 - 1

SetsValues == {Undef, Str(<<"a">>)} \cup {Num(k) : k \in (MinSets..1) \cup {MaxSets}}

\* The values given to the restSec field.
RestValues == {Undef, Num(0), Num(10), Num(20)}

\* The values given to the groupNumber field, and passed as a groupNumber.
GroupValues ==
    {Undef, Str(<<>>), Str(<<" ">>), Str(<<"a">>), Str(<<" ", "a">>), Str(<<"A">>)}

Item(sets, restSec, groupNumber) ==
    [sets |-> sets, restSec |-> restSec, groupNumber |-> groupNumber]

\* The plans of the model vary one field of their items at a time: the sets of
\* ungrouped items and of the members of one group, the groupNumber of
\* one-set items, and the restSec of the members of one group and of ungrouped items.
SetsItems ==
    {Item(s, Undef, Undef) : s \in SetsValues}
        \cup {Item(Num(k), Undef, Str(<<"a">>)) : k \in {MinSets, MaxSets}}

GroupItems == {Item(Undef, Undef, g) : g \in GroupValues}

RestItems ==
    {Item(Undef, r, Str(<<"a">>)) : r \in RestValues}
        \cup {Item(Undef, r, Undef) : r \in {Undef, Num(10)}}

ItemFamilies == {SetsItems, GroupItems, RestItems}

PlanLen(items) == Cardinality(DOMAIN items)

\* planItems[i], undefined outside the plan.
HasItem(items, i) == i \in DOMAIN items

IndexArgs == (0 - 1)..(MaxItems - 1)

\* driver is the position and the bookkeeping of the program that drives the
\* engine through a plan; it stays idle while the engine is called freely.
VARIABLES planItems, completedSets, ret, driver

vars == <<planItems, completedSets, ret, driver>>

(***************************************************************************)
(* SupersetExecutorV3: the pure part of each method, on a plan `items` and *)
(* a completion map `done`.                                                *)
(***************************************************************************)
Max(a, b) == IF a >= b THEN a ELSE b

\* initializeCompletionState: every plan index is set to 0.
initializeCompletionState(items) == [i \in DOMAIN items |-> 0]

\* A getTotalSets that takes one set for every item.
getTotalSetsOf_IgnoresSets(items, itemIndex) ==
    IF HasItem(items, itemIndex) THEN 1 ELSE 0

\* getTotalSets(itemIndex): item ? Number(item.sets) || 1 : 0
getTotalSetsOf(items, itemIndex) ==
    IF HasItem(items, itemIndex) THEN NumberOr(items[itemIndex].sets, 1) ELSE 0

\* getCompletedSets(itemIndex): this.completedSets.get(itemIndex) || 0
getCompletedSetsOf(done, itemIndex) ==
    IF itemIndex \in DOMAIN done THEN done[itemIndex] ELSE 0

\* getRemainingSets(itemIndex): Math.max(0, total - completed)
getRemainingSetsOf(items, done, itemIndex) ==
    Max(0, getTotalSetsOf(items, itemIndex) - getCompletedSetsOf(done, itemIndex))

\* A loop condition that is off by one: an item that has done all its sets
\* still counts as incomplete.
IsIncomplete_OffByOne(items, done, i) ==
    getCompletedSetsOf(done, i) <= NumberOr(items[i].sets, 1)

\* The loop condition of findNextIncompleteExercise at index i.
IsIncomplete(items, done, i) ==
    getCompletedSetsOf(done, i) < NumberOr(items[i].sets, 1)

\* A scan whose loop bound is off by one: it also reads planItems[length].
findNextIncompleteExerciseOf_PastEnd(items, done) ==
    LET open == {i \in 0..PlanLen(items) :
                    IF HasItem(items, i) THEN IsIncomplete(items, done, i)
                    ELSE getCompletedSetsOf(done, i) < 1} IN
    IF open = {} THEN [found |-> FALSE, index |-> 0]
    ELSE [found |-> TRUE, index |-> CHOOSE i \in open : \A j \in open : i <= j]

\* findNextIncompleteExercise: the first index, in plan order, whose completed
\* sets are below its total sets; found = FALSE stands for null.
findNextIncompleteExerciseOf(items, done) ==
    LET open == {i \in DOMAIN items : IsIncomplete(items, done, i)} IN
    IF open = {} THEN [found |-> FALSE, index |-> 0]
    ELSE [found |-> TRUE, index |-> CHOOSE i \in open : \A j \in open : i <= j]

\* An itemGroupId that is compared as written, without trim().
ItemGroupId_NoTrim(item) ==
    IF Truthy(item.groupNumber) THEN StringOf(item.groupNumber) ELSE <<>>

\* The itemGroupId of getGroupExercises: the trimmed groupNumber, '' when falsy.
ItemGroupId(item) ==
    IF Truthy(item.groupNumber) THEN Trim(StringOf(item.groupNumber)) ELSE <<>>

\* The scan of getGroupExercises over indices from..n-1, in plan order.
RECURSIVE ScanGroup(_, _, _)
ScanGroup(items, groupId, from) ==
    IF from >= PlanLen(items) THEN <<>>
    ELSE (IF ItemGroupId(items[from]) = groupId THEN <<from>> ELSE <<>>)
         \o ScanGroup(items, groupId, from + 1)

\* getGroupExercises without its guard against a blank groupId.
getGroupExercisesOf_NoBlankGuard(items, groupNumber) ==
    IF groupNumber.t = "undef" THEN <<>>
    ELSE ScanGroup(items, Trim(StringOf(groupNumber)), 0)

\* getGroupExercises(groupNumber)
getGroupExercisesOf(items, groupNumber) ==
    IF groupNumber.t = "undef" THEN <<>>
    ELSE LET groupId == Trim(StringOf(groupNumber)) IN
         IF groupId = <<>> THEN <<>> ELSE ScanGroup(items, groupId, 0)

\* An isGrouped that does not trim the groupNumber.
isGroupedOf_NoTrim(items, itemIndex) ==
    IF ~HasItem(items, itemIndex) THEN FALSE
    ELSE Truthy(items[itemIndex].groupNumber)

\* isGrouped(itemIndex)
isGroupedOf(items, itemIndex) ==
    IF ~HasItem(items, itemIndex) THEN FALSE
    ELSE Truthy(items[itemIndex].groupNumber)
         /\ Trim(StringOf(items[itemIndex].groupNumber)) # <<>>

\* One entry of groupInfo in getNextAction.
GroupInfoEntry(items, done, idx) ==
    [index |-> idx,
     totalSets |-> getTotalSetsOf(items, idx),
     completedSets |-> getCompletedSetsOf(done, idx),
     remainingSets |-> getRemainingSetsOf(items, done, idx)]

\* getNextAction()
getNextActionOf(items, done) ==
    LET nextIncomplete == findNextIncompleteExerciseOf(items, done) IN
    IF ~nextIncomplete.found THEN [action |-> "complete"]
    ELSE IF ~isGroupedOf(items, nextIncomplete.index)
    THEN [action |-> "exercise-start",
          exerciseIndex |-> nextIncomplete.index,
          setNumber |-> getCompletedSetsOf(done, nextIncomplete.index) + 1,
          isSingleExercise |-> TRUE,
          groupSize |-> 1]
    ELSE LET groupNumber == items[nextIncomplete.index].groupNumber
             groupExercises == getGroupExercisesOf(items, groupNumber)
         IN [action |-> "group-superset-start",
             groupNumber |-> Trim(StringOf(groupNumber)),
             groupExercises |->
                 [k \in 1..Len(groupExercises) |->
                     GroupInfoEntry(items, done, groupExercises[k])],
             currentExerciseIndex |-> nextIncomplete.index]

\* An anyRemaining scan that looks at the group's first member only.
AnyRemaining_FirstOnly(items, done, groupExercises) ==
    /\ groupExercises # <<>>
    /\ getRemainingSetsOf(items, done, groupExercises[1]) > 0

\* The anyRemaining scan of getNextGroupAction and completeGroupRound.
AnyRemaining(items, done, groupExercises) ==
    \E k \in 1..Len(groupExercises) :
        getRemainingSetsOf(items, done, groupExercises[k]) > 0

\* getNextGroupAction with the completed count itself as the set number.
getNextGroupActionOf_SetNumberOffByOne(items, done, groupNumber) ==
    LET groupExercises == getGroupExercisesOf(items, groupNumber) IN
    IF ~AnyRemaining(items, done, groupExercises) THEN [action |-> "group-complete"]
    ELSE LET k == CHOOSE k \in 1..Len(groupExercises) :
                    /\ getRemainingSetsOf(items, done, groupExercises[k]) > 0
                    /\ \A j \in 1..(k - 1) :
                          getRemainingSetsOf(items, done, groupExercises[j]) = 0
             idx == groupExercises[k]
         IN [action |-> "next-exercise-in-group",
             exerciseIndex |-> idx,
             setNumber |-> getCompletedSetsOf(done, idx),
             restSeconds |-> Undef]

\* getNextGroupAction(groupNumber)
getNextGroupActionOf(items, done, groupNumber) ==
    LET groupExercises == getGroupExercisesOf(items, groupNumber) IN
    IF ~AnyRemaining(items, done, groupExercises) THEN [action |-> "group-complete"]
    ELSE LET k == CHOOSE k \in 1..Len(groupExercises) :
                    /\ getRemainingSetsOf(items, done, groupExercises[k]) > 0
                    /\ \A j \in 1..(k - 1) :
                          getRemainingSetsOf(items, done, groupExercises[j]) = 0
             idx == groupExercises[k]
         IN [action |-> "next-exercise-in-group",
             exerciseIndex |-> idx,
             setNumber |-> getCompletedSetsOf(done, idx) + 1,
             restSeconds |-> Undef]

\* The rest fallback of completeGroupRound.
DefaultRestSeconds == 60

\* Number(lastItem?.restSec) || 60
RestSecondsOf(items, lastExerciseIndex) ==
    IF HasItem(items, lastExerciseIndex)
    THEN NumberOr(items[lastExerciseIndex].restSec, DefaultRestSeconds)
    ELSE DefaultRestSeconds

\* completeGroupRound(lastExerciseIndex, groupNumber)
completeGroupRoundOf(items, done, lastExerciseIndex, groupNumber) ==
    LET groupExercises == getGroupExercisesOf(items, groupNumber) IN
    IF ~AnyRemaining(items, done, groupExercises) THEN [action |-> "group-complete"]
    ELSE [action |-> "rest-then-continue",
          exerciseIndex |-> groupExercises[1],
          restSeconds |-> RestSecondsOf(items, lastExerciseIndex),
          lastExerciseIndex |-> lastExerciseIndex]

\* getState(): one entry per plan index (the item name is not modelled);
\* groupNumber is item.groupNumber || null, with Undef for null.
getStateOf(items, done) ==
    [i \in DOMAIN items |->
        LET total == getTotalSetsOf(items, i)
            completed == getCompletedSetsOf(done, i)
        IN [index |-> i,
            groupNumber |-> IF Truthy(items[i].groupNumber)
                            THEN items[i].groupNumber ELSE Undef,
            totalSets |-> total,
            completedSets |-> completed,
            remainingSets |-> total - completed]]

\* completeSet without the clamp at the item's total sets.
completeSetOf_NoClamp(items, done, itemIndex) ==
    IF HasItem(items, itemIndex)
    THEN [done EXCEPT ![itemIndex] = getCompletedSetsOf(done, itemIndex) + 1]
    ELSE done

\* completeSet(itemIndex): the completion map after the call.
completeSetOf(items, done, itemIndex) ==
    LET current == getCompletedSetsOf(done, itemIndex)
        total == getTotalSetsOf(items, itemIndex)
    IN IF current < total
       THEN [i \in DOMAIN done \cup {itemIndex} |->
                IF i = itemIndex THEN current + 1 ELSE done[i]]
       ELSE done

(***************************************************************************)
(* validateGroupConfiguration (group-validation utilities): the advisory   *)
(* check of a plan for interleaved groups.  The groupMap is the sequence   *)
(* of its keys in insertion order with one entry per key; an entry of      *)
(* interleavedItems is the index and the group text of its line (the item  *)
(* name of the line is not modelled).                                      *)
(***************************************************************************)
\* A groupId taken as written, without trim().
ValidatorGroupId_NoTrim(item) ==
    IF Truthy(item.groupNumber) THEN StringOf(item.groupNumber) ELSE <<>>

\* First pass: item.groupNumber && String(item.groupNumber).trim(); <<>> is falsy.
ValidatorGroupId(item) ==
    IF Truthy(item.groupNumber) THEN Trim(StringOf(item.groupNumber)) ELSE <<>>

\* The keys of groupMap once forEach has visited the indices below upto.
RECURSIVE GroupMapKeys(_, _)
GroupMapKeys(items, upto) ==
    IF upto = 0 THEN <<>>
    ELSE LET keys == GroupMapKeys(items, upto - 1)
             groupId == ValidatorGroupId(items[upto - 1]) IN
         IF groupId = <<>> \/ (\E k \in 1..Len(keys) : keys[k] = groupId) THEN keys
         ELSE Append(keys, groupId)

\* group.indices: the timeline indices pushed for groupId, from index `from` on.
RECURSIVE GroupIndicesFrom(_, _, _)
GroupIndicesFrom(items, groupId, from) ==
    IF from >= PlanLen(items) THEN <<>>
    ELSE (IF ValidatorGroupId(items[from]) = groupId THEN <<from>> ELSE <<>>)
         \o GroupIndicesFrom(items, groupId, from + 1)

\* The groupMap entry of groupId after the first pass.
GroupMapEntry(items, groupId) ==
    LET indices == GroupIndicesFrom(items, groupId, 0) IN
    [firstIndex |-> indices[1], lastIndex |-> indices[Len(indices)], indices |-> indices]

NoneText == <<"n", "o", "n", "e">>

\* The group text of a gap line: item?.groupNumber || "none"
GapGroupText(items, i) ==
    IF HasItem(items, i) /\ Truthy(items[i].groupNumber)
    THEN StringOf(items[i].groupNumber) ELSE NoneText

\* A gaps loop that runs over as many indices as the group has members,
\* not over the group's span.
RECURSIVE GapsFrom_MemberCount(_, _, _)
GapsFrom_MemberCount(items, groupInfo, i) ==
    IF i >= groupInfo.firstIndex + Len(groupInfo.indices) THEN <<>>
    ELSE (IF \E k \in 1..Len(groupInfo.indices) : groupInfo.indices[k] = i THEN <<>>
          ELSE <<[index |-> i, group |-> GapGroupText(items, i)]>>)
         \o GapsFrom_MemberCount(items, groupInfo, i + 1)

\* The gaps loop, from index i to lastIndex.
RECURSIVE GapsFrom(_, _, _)
GapsFrom(items, groupInfo, i) ==
    IF i > groupInfo.lastIndex THEN <<>>
    ELSE (IF \E k \in 1..Len(groupInfo.indices) : groupInfo.indices[k] = i THEN <<>>
          ELSE <<[index |-> i, group |-> GapGroupText(items, i)]>>)
         \o GapsFrom(items, groupInfo, i + 1)

\* The issue pushed for an interleaved group.
GroupIssue(items, groupId, groupInfo) ==
    [severity |-> "warning",
     groupId |-> groupId,
     message |-> "interleaved",
     details |-> [span |-> <<groupInfo.firstIndex, groupInfo.lastIndex>>,
                  groupItemCount |-> Len(groupInfo.indices),
                  spaceOccupied |-> groupInfo.lastIndex - groupInfo.firstIndex + 1,
                  interleavedItems |-> GapsFrom(items, groupInfo, groupInfo.firstIndex)]]

\* Second pass over the first k keys of groupMap: the issues pushed so far.
RECURSIVE SecondPass(_, _, _)
SecondPass(items, keys, k) ==
    IF k = 0 THEN <<>>
    ELSE LET groupInfo == GroupMapEntry(items, keys[k])
             expectedContiguousLength == groupInfo.lastIndex - groupInfo.firstIndex + 1 IN
         SecondPass(items, keys, k - 1)
             \o (IF Len(groupInfo.indices) # expectedContiguousLength
                 THEN <<GroupIssue(items, keys[k], groupInfo)>> ELSE <<>>)

\* validateGroupConfiguration(planItems), for an array planItems.
validateGroupConfiguration(items) ==
    IF PlanLen(items) = 0 THEN [isValid |-> TRUE, issues |-> <<>>, message |-> ""]
    ELSE LET keys == GroupMapKeys(items, PlanLen(items))
             issues == SecondPass(items, keys, Len(keys)) IN
         [isValid |-> Len(issues) = 0,
          issues |-> issues,
          message |-> IF Len(issues) = 0 THEN "Group configuration is valid"
                      ELSE "Found group configuration issue(s)"]

(***************************************************************************)
(* SupersetExecutorV2Sim (simulate-group2-with-echo.mjs, lines 12-138, and *)
(* the same class in simulate-nested-groups.mjs): the executor that moves  *)
(* to the next member by its position in the group's own list.  The groups *)
(* are built once, at construction; rem is the setsRemaining of all the    *)
(* groups together, a function on the indices of the grouped items.        *)
(***************************************************************************)
\* buildGroups: item.groupNumber && String(item.groupNumber).trim()
V2GroupId(item) ==
    IF Truthy(item.groupNumber) THEN Trim(StringOf(item.groupNumber)) ELSE <<>>

\* The items of the group with the given id, from index `from` on, in plan order.
RECURSIVE V2GroupItemsFrom(_, _, _)
V2GroupItemsFrom(items, groupId, from) ==
    IF from >= PlanLen(items) THEN <<>>
    ELSE (IF V2GroupId(items[from]) = groupId THEN <<from>> ELSE <<>>)
         \o V2GroupItemsFrom(items, groupId, from + 1)

\* isGrouped(itemIndex)
V2isGrouped(items, itemIndex) ==
    HasItem(items, itemIndex) /\ V2GroupId(items[itemIndex]) # <<>>

\* findGroupForItem(itemIndex).items as indices; <<>> stands for null.
findGroupForItem(items, itemIndex) ==
    IF V2isGrouped(items, itemIndex)
    THEN V2GroupItemsFrom(items, V2GroupId(items[itemIndex]), 0)
    ELSE <<>>

\* initializeAllGroupStates: Number(item.sets) || 1 for every grouped item.
initializeAllGroupStates(items) ==
    [i \in {j \in DOMAIN items : V2isGrouped(items, j)} |-> NumberOr(items[i].sets, 1)]

\* getRemainingSets(itemIndex)
V2getRemainingSets(rem, itemIndex) ==
    IF itemIndex \in DOMAIN rem THEN rem[itemIndex] ELSE 0

\* The first position after currentPos in the group whose item has sets
\* remaining; 0 when there is none.
NextPosInGroup(group, rem, currentPos) ==
    LET later == {k \in (currentPos + 1)..Len(group) : V2getRemainingSets(rem, group[k]) > 0}
    IN IF later = {} THEN 0 ELSE CHOOSE k \in later : \A j \in later : k <= j

\* getNextExercise(completedItemIndex): what it returns (next) and the
\* setsRemaining after it.
getNextExercise(items, rem, completedItemIndex) ==
    LET group == findGroupForItem(items, completedItemIndex) IN
    IF group = <<>> THEN [next |-> [action |-> "complete"], rem |-> rem]
    ELSE LET currentRemaining == V2getRemainingSets(rem, completedItemIndex)
             after == IF currentRemaining > 0
                      THEN [rem EXCEPT ![completedItemIndex] = currentRemaining - 1]
                      ELSE rem
             currentPos == CHOOSE k \in 1..Len(group) : group[k] = completedItemIndex
             nextPos == NextPosInGroup(group, after, currentPos)
             anyPos == NextPosInGroup(group, after, 0)
         IN IF nextPos # 0
            THEN [next |-> [action |-> "next-exercise", itemIndex |-> group[nextPos]],
                  rem |-> after]
            ELSE IF anyPos = 0 THEN [next |-> [action |-> "complete"], rem |-> after]
            ELSE [next |-> [action |-> "rest-then-continue",
                              itemIndex |-> group[anyPos],
                              restAfter |-> completedItemIndex],
                  rem |-> after]

\* The timeline entries of items from..n-1: one entry per set of each item.
RECURSIVE TimelineFrom(_, _)
TimelineFrom(items, from) ==
    IF from >= PlanLen(items) THEN <<>>
    ELSE LET sets == Max(1, NumberOr(items[from].sets, 1)) IN
         [s \in 1..sets |-> [itemIndex |-> from, set |-> s]]
             \o TimelineFrom(items, from + 1)

\* buildPlanTimeline(items); the entry at timeline index ti is timeline[ti + 1].
buildPlanTimeline(items) == TimelineFrom(items, 0)

\* timeline.findIndex over the entries matching `matches`; -1 when none does.
FirstIndex(matches) ==
    IF matches = {} THEN 0 - 1 ELSE (CHOOSE k \in matches : \A j \in matches : k <= j) - 1

\* findTimelineIndexFor(itemIndex, setNumber)
findTimelineIndexFor(timeline, itemIndex, setNumber) ==
    FirstIndex({k \in 1..Len(timeline) :
                   timeline[k].itemIndex = itemIndex /\ timeline[k].set = setNumber})

(***************************************************************************)
(* The engine as a state machine.  The engine is synchronous and has one   *)
(* caller: a call runs to completion and hands its result to the caller    *)
(* before the next call begins.  ret is the call that has just returned,   *)
(* with its arguments and its result, until the caller takes it (Return).  *)
(***************************************************************************)
Plans == UNION {[0..(n - 1) -> F] : n \in 0..MaxItems, F \in ItemFamilies}

Call(op, args, result) == [op |-> op, args |-> args, result |-> result]

NoCall == Call("none", <<>>, Undef)

\* The driver when no driver runs.
Idle == [pc |-> "idle"]

\* new SupersetExecutorV3(planItems)
Init ==
    /\ planItems \in Plans
    /\ completedSets = initializeCompletionState(planItems)
    /\ ret = NoCall
    /\ driver = Idle

CompleteSet(itemIndex) ==
    /\ ret = NoCall
    /\ completedSets' = completeSetOf(planItems, completedSets, itemIndex)
    /\ ret' = Call("completeSet", <<itemIndex>>, Undef)
    /\ UNCHANGED <<planItems, driver>>

GetNextAction ==
    /\ ret = NoCall
    /\ ret' = Call("getNextAction", <<>>, getNextActionOf(planItems, completedSets))
    /\ UNCHANGED <<planItems, completedSets, driver>>

GetNextGroupAction(groupNumber) ==
    /\ ret = NoCall
    /\ ret' = Call("getNextGroupAction", <<groupNumber>>,
                   getNextGroupActionOf(planItems, completedSets, groupNumber))
    /\ UNCHANGED <<planItems, completedSets, driver>>

\* A completeGroupRound that also completes a set of the member it is given.
CompleteGroupRound_Advances(lastExerciseIndex, groupNumber) ==
    /\ ret = NoCall
    /\ ret' = Call("completeGroupRound", <<lastExerciseIndex, groupNumber>>,
                   completeGroupRoundOf(planItems, completedSets,
                                        lastExerciseIndex, groupNumber))
    /\ completedSets' = completeSetOf(planItems, completedSets, lastExerciseIndex)
    /\ UNCHANGED <<planItems, driver>>

CompleteGroupRound(lastExerciseIndex, groupNumber) ==
    /\ ret = NoCall
    /\ ret' = Call("completeGroupRound", <<lastExerciseIndex, groupNumber>>,
                   completeGroupRoundOf(planItems, completedSets,
                                        lastExerciseIndex, groupNumber))
    /\ UNCHANGED <<planItems, completedSets, driver>>

GetGroupExercises(groupNumber) ==
    /\ ret = NoCall
    /\ ret' = Call("getGroupExercises", <<groupNumber>>,
                   getGroupExercisesOf(planItems, groupNumber))
    /\ UNCHANGED <<planItems, completedSets, driver>>

\* isGrouped(itemIndex)
IsGrouped(itemIndex) ==
    /\ ret = NoCall
    /\ ret' = Call("isGrouped", <<itemIndex>>, isGroupedOf(planItems, itemIndex))
    /\ UNCHANGED <<planItems, completedSets, driver>>

\* getState()
GetState ==
    /\ ret = NoCall
    /\ ret' = Call("getState", <<>>, getStateOf(planItems, completedSets))
    /\ UNCHANGED <<planItems, completedSets, driver>>

\* validateGroupConfiguration(planItems) on the plan the engine was built from.
ValidateGroupConfiguration ==
    /\ ret = NoCall
    /\ ret' = Call("validateGroupConfiguration", <<>>, validateGroupConfiguration(planItems))
    /\ UNCHANGED <<planItems, completedSets, driver>>

\* A reset that clears only the items still in progress.
Reset_KeepsFinished ==
    /\ ret = NoCall
    /\ completedSets' =
           [i \in DOMAIN completedSets |->
               IF completedSets[i] < getTotalSetsOf(planItems, i) THEN 0
               ELSE completedSets[i]]
    /\ ret' = Call("reset", <<>>, Undef)
    /\ UNCHANGED <<planItems, driver>>

\* reset()
Reset ==
    /\ ret = NoCall
    /\ completedSets' = initializeCompletionState(planItems)
    /\ ret' = Call("reset", <<>>, Undef)
    /\ UNCHANGED <<planItems, driver>>

\* The caller takes the result; the engine is ready for the next call.
Return ==
    /\ ret # NoCall
    /\ ret' = NoCall
    /\ UNCHANGED <<planItems, completedSets, driver>>

Next ==
    \/ \E i \in IndexArgs : CompleteSet(i)
    \/ GetNextAction
    \/ \E g \in GroupValues : GetNextGroupAction(g)
    \/ \E i \in IndexArgs, g \in GroupValues : CompleteGroupRound(i, g)
    \/ \E g \in GroupValues : GetGroupExercises(g)
    \/ \E i \in IndexArgs : IsGrouped(i)
    \/ GetState
    \/ ValidateGroupConfiguration
    \/ Reset
    \/ Return

Spec == Init /\ [][Next]_vars

(***************************************************************************)
(* The validator on its own: it is a pure function of a plan snapshot, so  *)
(* it is checked on longer plans whose items differ in groupNumber only.   *)
(***************************************************************************)
ValidatorMaxItems == MaxItems + 2

ValidatorPlans == UNION {[0..(n - 1) -> GroupItems] : n \in 0..ValidatorMaxItems}

InitValidator ==
    /\ planItems \in ValidatorPlans
    /\ completedSets = initializeCompletionState(planItems)
    /\ ret = NoCall
    /\ driver = Idle

NextValidator ==
    \/ ValidateGroupConfiguration
    \/ Return

SpecValidator == InitValidator /\ [][NextValidator]_vars

(***************************************************************************)
(* A caller that regroups the plan while the engine runs.  The constructor *)
(* keeps the caller's array (this.planItems = planItems), so a groupNumber *)
(* the caller writes into an item of its array is written into the         *)
(* engine's plan.  driver.items is the caller's array, driver.changed      *)
(* tells whether the caller has written to it since construction.          *)
(***************************************************************************)
RegroupPlans == UNION {[0..(n - 1) -> GroupItems] : n \in 0..MaxItems}

InitRegroup ==
    /\ planItems \in RegroupPlans
    /\ completedSets = initializeCompletionState(planItems)
    /\ ret = NoCall
    /\ driver = [pc |-> "caller", items |-> planItems, changed |-> FALSE]

\* An engine that was given a copy of the array: the write stays with the caller.
SetGroupNumber_OnCopy(itemIndex, groupNumber) ==
    /\ ret = NoCall
    /\ itemIndex \in DOMAIN driver.items
    /\ driver' = [driver EXCEPT !.items[itemIndex].groupNumber = groupNumber,
                                !.changed = TRUE]
    /\ ret' = Call("setGroupNumber", <<itemIndex, groupNumber>>, Undef)
    /\ UNCHANGED <<planItems, completedSets>>

\* planItems[itemIndex].groupNumber = groupNumber, written by the caller.
SetGroupNumber(itemIndex, groupNumber) ==
    /\ ret = NoCall
    /\ itemIndex \in DOMAIN driver.items
    /\ driver' = [driver EXCEPT !.items[itemIndex].groupNumber = groupNumber,
                                !.changed = TRUE]
    /\ planItems' = [planItems EXCEPT ![itemIndex].groupNumber = groupNumber]
    /\ ret' = Call("setGroupNumber", <<itemIndex, groupNumber>>, Undef)
    /\ UNCHANGED completedSets

NextRegroup ==
    \/ \E i \in IndexArgs, g \in GroupValues : SetGroupNumber(i, g)
    \/ \E i \in IndexArgs : CompleteSet(i)
    \/ GetNextAction
    \/ \E i \in IndexArgs, g \in GroupValues : CompleteGroupRound(i, g)
    \/ \E g \in GroupValues : GetGroupExercises(g)
    \/ Return

SpecRegroup == InitRegroup /\ [][NextRegroup]_vars

(***************************************************************************)
(* A driver of the engine.  Its control flow is that of simulate() in      *)
(* src/scripts/simulate-plan.js: take the next incomplete exercise; if it  *)
(* is grouped, run the whole group in rounds, one set per member that      *)
(* still has sets, and end each round; if not, run its sets.  Where        *)
(* simulate() reads and writes its own trackers the driver calls the       *)
(* engine: getNextAction, getRemainingSets, completeSet, and               *)
(* completeGroupRound(lastExecutedIdx, groupNumber) at the end of a round, *)
(* as the superset test of the engine does.  A stepwise driver asks        *)
(* getNextAction again after every set of an ungrouped item.               *)
(*                                                                         *)
(* driver.performed[i] counts the completeSet(i) calls made, completions   *)
(* counts them all, rests counts the rest-then-continue results of the     *)
(* group being run.                                                        *)
(***************************************************************************)
DriverSets == {Num(MinSets), Num(1), Num(MaxSets)}

\* Ungrouped items, the members of a group with their own rests, and the
\* members of a second group.
DriverItems ==
    {Item(s, Undef, Undef) : s \in DriverSets}
        \cup {Item(s, r, Str(<<"a">>)) : s \in DriverSets, r \in {Num(0), Num(10), Num(20)}}
        \cup {Item(s, Undef, Str(<<"A">>)) : s \in DriverSets}

DriverPlans == UNION {[0..(n - 1) -> DriverItems] : n \in 0..MaxItems}

InitDriver ==
    /\ planItems \in DriverPlans
    /\ completedSets = initializeCompletionState(planItems)
    /\ ret = NoCall
    /\ \E stepwise \in BOOLEAN :
          driver = [pc |-> "next",
                    stepwise |-> stepwise,
                    next |-> 0 - 1,
                    groupNumber |-> <<>>,
                    groupExercises |-> <<>>,
                    pos |-> 1,
                    lastExecutedIdx |-> 0 - 1,
                    performed |-> [i \in DOMAIN planItems |-> 0],
                    completions |-> 0,
                    rests |-> 0]

\* The head of the outer loop: ask the engine what comes next.
DriverNext ==
    /\ driver.pc = "next"
    /\ LET result == getNextActionOf(planItems, completedSets) IN
       /\ ret' = Call("getNextAction", <<>>, result)
       /\ driver' =
              IF result.action = "complete" THEN [driver EXCEPT !.pc = "done"]
              ELSE IF result.action = "exercise-start"
              THEN [driver EXCEPT !.pc = "set", !.next = result.exerciseIndex]
              ELSE [driver EXCEPT !.pc = "round",
                                  !.next = result.currentExerciseIndex,
                                  !.groupNumber = result.groupNumber,
                                  !.groupExercises =
                                      [k \in 1..Len(result.groupExercises) |->
                                          result.groupExercises[k].index],
                                  !.pos = 1,
                                  !.lastExecutedIdx = 0 - 1,
                                  !.rests = 0]
    /\ UNCHANGED <<planItems, completedSets>>

\* Not grouped: one set of the item; the stepwise driver then asks again, the
\* serial one goes on with the item while it has sets left.
DriverSet ==
    /\ driver.pc = "set"
    /\ LET after == completeSetOf(planItems, completedSets, driver.next) IN
       /\ completedSets' = after
       /\ ret' = Call("completeSet", <<driver.next>>, Undef)
       /\ driver' = [driver EXCEPT
                        !.performed[driver.next] = @ + 1,
                        !.completions = @ + 1,
                        !.pc = IF driver.stepwise
                                  \/ getRemainingSetsOf(planItems, after, driver.next) = 0
                               THEN "next" ELSE "set"]
    /\ UNCHANGED planItems

\* Within a round: the member at pos does one set, or is skipped when complete.
DriverRound ==
    /\ driver.pc = "round"
    /\ driver.pos <= Len(driver.groupExercises)
    /\ LET idx == driver.groupExercises[driver.pos] IN
       IF getRemainingSetsOf(planItems, completedSets, idx) = 0
       THEN /\ ret' = Call("getRemainingSets", <<idx>>, 0)
            /\ driver' = [driver EXCEPT !.pos = @ + 1]
            /\ UNCHANGED completedSets
       ELSE /\ completedSets' = completeSetOf(planItems, completedSets, idx)
            /\ ret' = Call("completeSet", <<idx>>, Undef)
            /\ driver' = [driver EXCEPT !.pos = @ + 1,
                                        !.lastExecutedIdx = idx,
                                        !.performed[idx] = @ + 1,
                                        !.completions = @ + 1]
    /\ UNCHANGED planItems

\* The end of a round: leave the group if nothing was executed; otherwise
\* completeGroupRound tells whether to rest and go round again.
DriverRoundEnd ==
    /\ driver.pc = "round"
    /\ driver.pos > Len(driver.groupExercises)
    /\ IF driver.lastExecutedIdx = 0 - 1
       THEN /\ driver' = [driver EXCEPT !.pc = "next"]
            /\ UNCHANGED ret
       ELSE LET groupNumber == Str(driver.groupNumber)
                result == completeGroupRoundOf(planItems, completedSets,
                                               driver.lastExecutedIdx, groupNumber)
            IN /\ ret' = Call("completeGroupRound",
                              <<driver.lastExecutedIdx, groupNumber>>, result)
               /\ driver' =
                      IF result.action = "group-complete"
                      THEN [driver EXCEPT !.pc = "next"]
                      ELSE [driver EXCEPT !.pos = 1,
                                          !.lastExecutedIdx = 0 - 1,
                                          !.rests = @ + 1]
    /\ UNCHANGED <<planItems, completedSets>>

NextDriver ==
    \/ DriverNext
    \/ DriverSet
    \/ DriverRound
    \/ DriverRoundEnd

SpecDriver == InitDriver /\ [][NextDriver]_vars

\* The driver is a sequential program: it takes its next step whenever it has one.
SpecDriverLive == SpecDriver /\ WF_vars(NextDriver)

(***************************************************************************)
(* The simulation scripts.  Each script is a program of its own: it has    *)
(* its plan, its trackers and its loop, and it prints what it runs.  The   *)
(* scripts are run here on the plan the engine is built on, so that what a *)
(* script did can be compared with what the engine's driver does on the    *)
(* same plan.  driver.script is the state of the script.  simulate() runs  *)
(* first and its last step starts the driver, which is then held against   *)
(* the trace; the two timeline loops run when the driver is done, so that  *)
(* the driver's count of the sets it performed is there whether or not the *)
(* loop ends.                                                              *)
(*                                                                         *)
(*   kind "echo"    the loop of simulate-group2-with-echo.mjs, 183-232     *)
(*   kind "nested"  the loop of simulate-nested-groups.mjs, 180-222        *)
(*   kind "plan"    simulate() of simulate-plan.js, 82-142                 *)
(*                                                                         *)
(* script.runs[k] counts the RUN events of timeline entry k (RunsCap       *)
(* stands for any larger count), script.visits is the itemIndex of the     *)
(* RUN events of the nested script in order, script.iterations counts the  *)
(* iterations of the loop (the echo script has no such counter: there it   *)
(* is an observation, and it stops counting at maxIterations), and         *)
(* script.trace is the trace of simulate(): its numbered set lines and its *)
(* rest lines.                                                             *)
(***************************************************************************)
PlanOf(seq) == [i \in 0..(Len(seq) - 1) |-> seq[i + 1]]

\* simulate-group2-with-echo.mjs, lines 3-10.
EchoPlan ==
    PlanOf(<<Item(Num(2), Undef, Str(<<"1">>)),
             Item(Num(3), Undef, Str(<<"1">>)),
             Item(Num(2), Undef, Str(<<"2">>)),
             Item(Num(2), Undef, Undef),
             Item(Num(3), Undef, Str(<<"2">>)),
             Item(Num(2), Undef, Str(<<"2">>))>>)

\* simulate-nested-groups.mjs, lines 3-9: test1, test2, groupTwo_item1, test3,
\* groupTwo_item2.
NestedPlan ==
    PlanOf(<<Item(Num(2), Undef, Str(<<"1">>)),
             Item(Num(2), Undef, Str(<<"1">>)),
             Item(Num(2), Undef, Str(<<"2">>)),
             Item(Num(2), Undef, Str(<<"1">>)),
             Item(Num(2), Undef, Str(<<"2">>))>>)

\* simulate-plan.js, lines 4-54.
SimulatePlan ==
    PlanOf(<<Item(Num(2), Num(10), Str(<<"1">>)),
             Item(Num(3), Num(90), Str(<<"1">>)),
             Item(Num(2), Num(30), Str(<<"2">>)),
             Item(Num(2), Num(15), Str(<<"3">>)),
             Item(Num(3), Num(90), Str(<<"2">>)),
             Item(Num(2), Num(20), Str(<<"1">>))>>)

\* Items with a positive number of sets and a trimmed group id: ungrouped,
\* the members of a group with their own rests, the members of a second group.
ScriptItems ==
    {Item(Num(k), Undef, g) : k \in {1, MaxSets}, g \in {Undef, Str(<<"A">>)}}
        \cup {Item(Num(k), r, Str(<<"a">>)) : k \in {1, MaxSets}, r \in {Undef, Num(10), Num(20)}}

ScriptPlans ==
    {EchoPlan, NestedPlan, SimulatePlan}
        \cup UNION {[0..(n - 1) -> ScriptItems] : n \in 0..MaxItems}

ScriptKinds == {"echo", "nested", "plan"}

\* simulate-nested-groups.mjs, line 178.
maxIterations == 100

RunsCap == 2

\* One more RUN event of timeline index ti.
RunAt(runs, ti) == [runs EXCEPT ![ti + 1] = IF @ < RunsCap THEN @ + 1 ELSE @]

InitScripts ==
    /\ planItems \in ScriptPlans
    /\ completedSets = initializeCompletionState(planItems)
    /\ ret = NoCall
    /\ \E kind \in ScriptKinds, stepwise \in BOOLEAN :
          driver = [pc |-> IF kind = "plan" THEN "wait" ELSE "next",
                    stepwise |-> stepwise,
                    next |-> 0 - 1,
                    groupNumber |-> <<>>,
                    groupExercises |-> <<>>,
                    pos |-> 1,
                    lastExecutedIdx |-> 0 - 1,
                    performed |-> [i \in DOMAIN planItems |-> 0],
                    completions |-> 0,
                    rests |-> 0,
                    script |-> [kind |-> kind,
                                pc |-> IF kind = "plan" THEN "next" ELSE "run",
                                rem |-> initializeAllGroupStates(planItems),
                                ti |-> 0,
                                iterations |-> 0,
                                runs |-> [k \in 1..Len(buildPlanTimeline(planItems)) |-> 0],
                                visits |-> <<>>,
                                completed |-> [i \in DOMAIN planItems |-> 0],
                                next |-> 0 - 1,
                                groupExercises |-> <<>>,
                                pos |-> 1,
                                lastExecutedIdx |-> 0 - 1,
                                trace |-> <<>>]]

\* The end of simulate(): the comparison goes on with the engine's driver.
Finished(script) == [driver EXCEPT !.script = [script EXCEPT !.pc = "done"], !.pc = "next"]

Min(a, b) == IF a <= b THEN a ELSE b

\* The non-grouped timeline indices strictly between two timeline indices.
NonGroupedBetween(items, timeline, t1, t2) ==
    {i \in (Min(t1, t2) + 1)..(Max(t1, t2) - 1) :
        ~V2isGrouped(items, timeline[i + 1].itemIndex)}

\* Lines 196-231 of the echo loop: the ti of the next iteration after the
\* executor answered `next` (next-exercise or rest-then-continue) at ti.
EchoTarget(items, timeline, rem, ti, next) ==
    LET idx == findTimelineIndexFor(timeline, next.itemIndex,
                                    V2getRemainingSets(rem, next.itemIndex))
        between == NonGroupedBetween(items, timeline, ti, idx)
    IN IF idx # 0 - 1 /\ idx # ti
       THEN IF between # {}
            THEN CHOOSE i \in between : \A j \in between : i <= j
            ELSE idx
       ELSE ti + 1

\* One iteration of the loop of simulate-group2-with-echo.mjs, or its exit.
EchoStep ==
    /\ driver.script.kind = "echo"
    /\ driver.script.pc = "run"
    /\ driver.pc = "done"
    /\ LET script == driver.script
           timeline == buildPlanTimeline(planItems)
           ti == script.ti
       IN IF ti >= Len(timeline) THEN driver' = [driver EXCEPT !.script.pc = "done"]
          ELSE LET itemIndex == timeline[ti + 1].itemIndex
                   r == getNextExercise(planItems, script.rem, itemIndex)
                   ran == [script EXCEPT
                              !.runs = RunAt(@, ti),
                              !.iterations = IF @ < maxIterations THEN @ + 1 ELSE @]
               IN driver' =
                      [driver EXCEPT !.script =
                          IF ~V2isGrouped(planItems, itemIndex)
                          THEN [ran EXCEPT !.ti = ti + 1]
                          ELSE [ran EXCEPT
                                   !.rem = r.rem,
                                   !.ti = IF r.next.action = "complete" THEN ti + 1
                                          ELSE EchoTarget(planItems, timeline, r.rem,
                                                          ti, r.next)]]
    /\ UNCHANGED <<planItems, completedSets, ret>>

\* A nested script that goes to the next timeline entry whatever the executor
\* answers.
NestedTarget_Linear(timeline, ti, next) == ti + 1

\* Lines 197-221 of the nested loop: the ti of the next iteration after the
\* executor answered `next` at ti.
NestedTarget(timeline, ti, next) ==
    IF next.action = "next-exercise"
    THEN LET targetIdx == FirstIndex({k \in 1..Len(timeline) :
                                         timeline[k].itemIndex = next.itemIndex})
         IN IF targetIdx # 0 - 1 THEN targetIdx ELSE ti + 1
    ELSE ti + 1

\* One iteration of the loop of simulate-nested-groups.mjs, or its exit.
NestedStep ==
    /\ driver.script.kind = "nested"
    /\ driver.script.pc = "run"
    /\ driver.pc = "done"
    /\ LET script == driver.script
           timeline == buildPlanTimeline(planItems)
           ti == script.ti
       IN IF ~(ti < Len(timeline) /\ script.iterations < maxIterations)
          THEN driver' = [driver EXCEPT !.script.pc = "done"]
          ELSE LET itemIndex == timeline[ti + 1].itemIndex
                   r == getNextExercise(planItems, script.rem, itemIndex)
                   ran == [script EXCEPT
                              !.runs = RunAt(@, ti),
                              !.visits = Append(@, itemIndex),
                              !.iterations = @ + 1]
               IN driver' =
                      [driver EXCEPT !.script =
                          IF ~V2isGrouped(planItems, itemIndex)
                          THEN [ran EXCEPT !.ti = ti + 1]
                          ELSE [ran EXCEPT
                                   !.rem = r.rem,
                                   !.ti = NestedTarget(timeline, ti, r.next)]]
    /\ UNCHANGED <<planItems, completedSets, ret>>

\* simulate-plan.js, line 57: typeof it.sets === 'number' ? it.sets : 1
SimulateTotalSets(items, i) ==
    IF items[i].sets.t = "num" THEN items[i].sets.n ELSE 1

\* simulate-plan.js, isGrouped(index): g != null && String(g).trim() !== ''
SimulateIsGrouped(items, index) ==
    LET g == items[index].groupNumber IN
    g.t # "undef" /\ Trim(StringOf(g)) # <<>>

\* The scan of simulate-plan.js' getGroupExercises from index `from` on:
\* String(plan.items[i].groupNumber) === String(groupNumber), as written.
RECURSIVE SimulateScan(_, _, _)
SimulateScan(items, groupNumber, from) ==
    IF from >= PlanLen(items) THEN <<>>
    ELSE (IF StringOf(items[from].groupNumber) = StringOf(groupNumber)
          THEN <<from>> ELSE <<>>)
         \o SimulateScan(items, groupNumber, from + 1)

\* simulate-plan.js, getGroupExercises(groupNumber)
SimulateGetGroupExercises(items, groupNumber) ==
    IF ~Truthy(groupNumber) \/ Trim(StringOf(groupNumber)) = <<>> THEN <<>>
    ELSE SimulateScan(items, groupNumber, 0)

\* simulate-plan.js, findNextIncompleteExercise(): -1 when every item is done.
SimulateFindNext(items, completed) ==
    LET open == {i \in DOMAIN items : completed[i] < SimulateTotalSets(items, i)} IN
    IF open = {} THEN 0 - 1 ELSE CHOOSE i \in open : \A j \in open : i <= j

\* The lines of the trace: a numbered set line of item idx, the rest line
\* after a round (idx the last executed member), the rest line between the
\* sets of an item that is not grouped.
SetLine(idx) == [line |-> "set", idx |-> idx, rest |-> Undef]

RoundRestLine(idx, rest) == [line |-> "round-rest", idx |-> idx, rest |-> rest]

SetRestLine(idx, rest) == [line |-> "set-rest", idx |-> idx, rest |-> rest]

\* item.restSec || 0
RestSecOr0(item) == IF Truthy(item.restSec) THEN item.restSec ELSE Num(0)

\* simulate(), lines 86-93: the head of the outer loop.
SimulateNext ==
    /\ driver.script.kind = "plan"
    /\ driver.script.pc = "next"
    /\ LET script == driver.script
           next == SimulateFindNext(planItems, script.completed)
       IN driver' =
              IF next = 0 - 1 THEN Finished(script)
              ELSE IF SimulateIsGrouped(planItems, next)
              THEN [driver EXCEPT !.script =
                       [script EXCEPT
                           !.pc = "round",
                           !.next = next,
                           !.groupExercises =
                               SimulateGetGroupExercises(planItems,
                                                         planItems[next].groupNumber),
                           !.pos = 1,
                           !.lastExecutedIdx = 0 - 1]]
              ELSE [driver EXCEPT !.script = [script EXCEPT !.pc = "set", !.next = next]]
    /\ UNCHANGED <<planItems, completedSets, ret>>

\* simulate(), lines 100-110: the member at pos does one set, or is skipped.
SimulateRound ==
    /\ driver.script.kind = "plan"
    /\ driver.script.pc = "round"
    /\ driver.script.pos <= Len(driver.script.groupExercises)
    /\ LET script == driver.script
           idx == script.groupExercises[script.pos]
       IN driver' =
              [driver EXCEPT !.script =
                  IF script.completed[idx] >= SimulateTotalSets(planItems, idx)
                  THEN [script EXCEPT !.pos = @ + 1]
                  ELSE [script EXCEPT !.pos = @ + 1,
                                      !.completed[idx] = @ + 1,
                                      !.lastExecutedIdx = idx,
                                      !.trace = Append(@, SetLine(idx))]]
    /\ UNCHANGED <<planItems, completedSets, ret>>

\* simulate(), lines 112-124: the end of a round.
SimulateRoundEnd ==
    /\ driver.script.kind = "plan"
    /\ driver.script.pc = "round"
    /\ driver.script.pos > Len(driver.script.groupExercises)
    /\ LET script == driver.script
           last == script.lastExecutedIdx
           allComplete == \A k \in 1..Len(script.groupExercises) :
                              script.completed[script.groupExercises[k]]
                                  >= SimulateTotalSets(planItems, script.groupExercises[k])
       IN driver' =
              [driver EXCEPT !.script =
                  IF last = 0 - 1 THEN [script EXCEPT !.pc = "next"]
                  ELSE [script EXCEPT
                           !.trace = Append(@, RoundRestLine(last, RestSecOr0(planItems[last]))),
                           !.pc = IF allComplete THEN "next" ELSE "round",
                           !.pos = 1,
                           !.lastExecutedIdx = 0 - 1]]
    /\ UNCHANGED <<planItems, completedSets, ret>>

\* simulate(), lines 127-137: one set of an item that is not grouped.
SimulateSet ==
    /\ driver.script.kind = "plan"
    /\ driver.script.pc = "set"
    /\ LET script == driver.script
           next == script.next
           more == script.completed[next] + 1 < SimulateTotalSets(planItems, next)
       IN driver' =
              [driver EXCEPT !.script =
                  [script EXCEPT
                      !.completed[next] = @ + 1,
                      !.trace = IF more
                                THEN @ \o <<SetLine(next),
                                            SetRestLine(next, RestSecOr0(planItems[next]))>>
                                ELSE Append(@, SetLine(next)),
                      !.pc = IF more THEN "set" ELSE "next"]]
    /\ UNCHANGED <<planItems, completedSets, ret>>

NextScripts ==
    \/ EchoStep
    \/ NestedStep
    \/ SimulateNext
    \/ SimulateRound
    \/ SimulateRoundEnd
    \/ SimulateSet
    \/ DriverNext
    \/ DriverSet
    \/ DriverRound
    \/ DriverRoundEnd

SpecScripts == InitScripts /\ [][NextScripts]_vars

(***************************************************************************)
(* The vocabulary of the properties: the plan as the specification reads   *)
(* it, stated without the engine's own helpers.                            *)
(***************************************************************************)
Indices == DOMAIN planItems

totalSets(i) == getTotalSetsOf(planItems, i)

\* The trimmed groupId of a groupNumber value; <<>> when blank or absent.
TrimmedId(v) == IF v.t = "str" THEN Trim(v.s) ELSE <<>>

Blank(v) == TrimmedId(v) = <<>>

Grouped(i) == ~Blank(planItems[i].groupNumber)

\* The plan indices carrying the trimmed groupId id.
Members(id) == {i \in Indices : TrimmedId(planItems[i].groupNumber) = id}

Range(q) == {q[k] : k \in 1..Len(q)}

Ascending(q) == \A k \in 1..(Len(q) - 1) : q[k] < q[k + 1]

Incomplete == {i \in Indices : completedSets[i] < totalSets(i)}

Lowest(S) == CHOOSE i \in S : \A j \in S : i <= j

Highest(S) == CHOOSE i \in S : \A j \in S : j <= i

Returned(op) == ret.op = op

\* C1: without reset, each completedSets[i] stays within 0..totalSets[i] and
\* never decreases from one state to the next.
C1_InRange == \A i \in Indices : 0 <= completedSets[i] /\ completedSets[i] <= totalSets(i)

C1_NeverDecreases ==
    [][ret'.op # "reset" => \A i \in Indices : completedSets'[i] >= completedSets[i]]_vars

C1_WithinTotalAndMonotone == []C1_InRange /\ C1_NeverDecreases

\* C2: getNextAction() returns {complete} if and only if completedSets[i]
\* equals totalSets[i] for every plan index i.
C2_CompleteIffAllDone ==
    Returned("getNextAction") =>
        (ret.result.action = "complete"
            <=> \A i \in Indices : completedSets[i] = totalSets(i))

\* C3: completeSet(index) adds exactly 1 to completedSets[index] when it is
\* below totalSets[index], changes nothing when it equals totalSets[index] or
\* index is outside the plan, never touches another index and returns normally.
C3_CompleteSetEffect ==
    [][ret'.op = "completeSet" =>
        LET index == ret'.args[1] IN
        /\ DOMAIN completedSets' = Indices
        /\ ret'.result = Undef
        /\ \A j \in Indices \ {index} : completedSets'[j] = completedSets[j]
        /\ (index \in Indices /\ completedSets[index] < totalSets(index))
              => completedSets'[index] = completedSets[index] + 1
        /\ (index \notin Indices \/ completedSets[index] = totalSets(index))
              => completedSets' = completedSets]_vars

\* completeSet has just counted the last set of a two-set item.
C3_Witness ==
    /\ Returned("completeSet")
    /\ ret.args[1] \in Indices
    /\ totalSets(ret.args[1]) = MaxSets
    /\ completedSets[ret.args[1]] = MaxSets

\* C4: with some item incomplete, getNextAction() selects the lowest incomplete
\* plan index i; if item i is ungrouped the result is exercise-start with
\* index i, setNumber = completedSets[i] + 1 within 1..totalSets[i], groupSize 1.
C4_LowestIncompleteUngrouped ==
    (Returned("getNextAction") /\ Incomplete # {}) =>
        LET i == Lowest(Incomplete) IN
        IF Grouped(i)
        THEN /\ ret.result.action = "group-superset-start"
             /\ ret.result.currentExerciseIndex = i
        ELSE /\ ret.result.action = "exercise-start"
             /\ ret.result.exerciseIndex = i
             /\ ret.result.setNumber = completedSets[i] + 1
             /\ 1 <= ret.result.setNumber
             /\ ret.result.setNumber <= totalSets(i)
             /\ ret.result.groupSize = 1

\* getNextAction returned the second set of an ungrouped item that follows a
\* finished item.
C4_Witness ==
    /\ Returned("getNextAction")
    /\ ret.result.action = "exercise-start"
    /\ ret.result.exerciseIndex > 0
    /\ ret.result.setNumber = MaxSets

\* C5: when the lowest incomplete item is grouped, getNextAction() returns
\* group-superset-start for its trimmed groupId; the members are exactly the
\* plan indices carrying that groupId, in ascending order, finished or not;
\* each entry has remainingSets = totalSets - completedSets; startIndex is the
\* lowest incomplete item.
C5_WholeGroupMembers ==
    (Returned("getNextAction") /\ Incomplete # {} /\ Grouped(Lowest(Incomplete))) =>
        LET i == Lowest(Incomplete)
            id == TrimmedId(planItems[i].groupNumber)
            m == ret.result.groupExercises
        IN /\ ret.result.action = "group-superset-start"
           /\ ret.result.groupNumber = id
           /\ {m[k].index : k \in 1..Len(m)} = Members(id)
           /\ \A k \in 1..(Len(m) - 1) : m[k].index < m[k + 1].index
           /\ \A k \in 1..Len(m) :
                 /\ m[k].totalSets = totalSets(m[k].index)
                 /\ m[k].completedSets = completedSets[m[k].index]
                 /\ m[k].remainingSets = m[k].totalSets - m[k].completedSets
           /\ ret.result.currentExerciseIndex = i

\* The plan with an ungrouped item u placed at index p.
InsertAt(items, p, u) ==
    [i \in 0..PlanLen(items) |->
        IF i < p THEN items[i] ELSE IF i = p THEN u ELSE items[i - 1]]

\* The indices of q after an item was placed at index p.
Shifted(q, p) == [k \in 1..Len(q) |-> IF q[k] >= p THEN q[k] + 1 ELSE q[k]]

UngroupedItems == {Item(Undef, Undef, g) : g \in {Undef, Str(<<>>), Str(<<" ">>)}}

\* C6: getGroupExercises(groupId) returns exactly the plan indices whose trimmed
\* groupId equals the trimmed argument, in ascending order, and the empty list
\* for a blank or absent id; placing an ungrouped item anywhere in the plan
\* leaves the members and their order as they were.
C6_GroupExercises ==
    Returned("getGroupExercises") =>
        LET id == TrimmedId(ret.args[1]) IN
        /\ id = <<>> => ret.result = <<>>
        /\ id # <<>> => Range(ret.result) = Members(id)
        /\ Ascending(ret.result)
        /\ \A p \in 0..PlanLen(planItems), u \in UngroupedItems :
              getGroupExercisesOf(InsertAt(planItems, p, u), ret.args[1])
                  = Shifted(ret.result, p)

\* getGroupExercises returned two members that an item separates, one of them
\* with a padded groupNumber.
C6_Witness ==
    /\ Returned("getGroupExercises")
    /\ ret.result = <<0, 2>>
    /\ planItems[0].groupNumber # planItems[2].groupNumber
    /\ planItems[1].groupNumber = Str(<<"A">>)

\* C7: completeGroupRound returns rest-then-continue if and only if a member of
\* the group has sets remaining, and group-complete otherwise; resumeIndex is
\* the group's first member and lastCompletedIndex is handed back unchanged.
C7_RoundResult ==
    Returned("completeGroupRound") =>
        LET id == TrimmedId(ret.args[2])
            members == IF id = <<>> THEN {} ELSE Members(id)
        IN IF \E i \in members : totalSets(i) - completedSets[i] > 0
           THEN /\ ret.result.action = "rest-then-continue"
                /\ ret.result.exerciseIndex = Lowest(members)
                /\ ret.result.lastExerciseIndex = ret.args[1]
           ELSE ret.result = [action |-> "group-complete"]

\* completeGroupRound asked for a rest although the group's first member is
\* finished: a later member, beyond an item of another kind, has sets left.
C7_Witness ==
    /\ Returned("completeGroupRound")
    /\ ret.result.action = "rest-then-continue"
    /\ ret.result.exerciseIndex = 0
    /\ completedSets[0] = totalSets(0)
    /\ ret.result.lastExerciseIndex = 2
    /\ ~Grouped(1)

\* C8: a rest-then-continue result carries the restSeconds of the item at
\* lastCompletedIndex for every non-negative value of that field, 0 included;
\* it is 60 when the field is missing or invalid and only then; it is the same
\* whatever the restSeconds of the other items.
C8_RestOfLastCompleted ==
    (Returned("completeGroupRound") /\ ret.result.action = "rest-then-continue") =>
        LET last == ret.args[1]
            field == IF last \in Indices THEN planItems[last].restSec ELSE Undef
            valid == field.t = "num" /\ field.n >= 0
        IN /\ valid => ret.result.restSeconds = field.n
           /\ ~valid => ret.result.restSeconds = DefaultRestSeconds
           /\ ret.result.restSeconds = DefaultRestSeconds
                 => (~valid \/ field.n = DefaultRestSeconds)
           /\ \A j \in Indices \ {last}, r \in RestValues :
                 completeGroupRoundOf([planItems EXCEPT ![j].restSec = r],
                                      completedSets, last, ret.args[2]).restSeconds
                     = ret.result.restSeconds

\* The sets values the specification coerces to 1.
CoercedSets == {Undef, Str(<<"a">>)} \cup {Num(k) : k \in MinSets..0}

\* C9: an item whose sets value is missing, non-numeric or below 1 has
\* totalSets = 1: it is incomplete at construction and complete after one
\* completeSet.
C9_SetsCoercedToOne ==
    \A i \in Indices :
        planItems[i].sets \in CoercedSets =>
            /\ totalSets(i) = 1
            /\ completedSets[i] = 0 => i \in Incomplete
            /\ completedSets[i] = 1 => i \notin Incomplete

\* C10: for a groupId that is blank, absent or carried by no plan item,
\* getGroupExercises returns the empty list and completeGroupRound returns
\* group-complete, whatever the state and the lastCompletedIndex.
C10_UnknownGroup ==
    /\ Returned("getGroupExercises") =>
          LET id == TrimmedId(ret.args[1]) IN
          (id = <<>> \/ Members(id) = {}) => ret.result = <<>>
    /\ Returned("completeGroupRound") =>
          LET id == TrimmedId(ret.args[2]) IN
          (id = <<>> \/ Members(id) = {}) => ret.result = [action |-> "group-complete"]

\* completeGroupRound was called for a blank groupNumber with the index of an
\* ungrouped item that still has sets to do.
C10_Witness ==
    /\ Returned("completeGroupRound")
    /\ ret.args[2] = Str(<<" ">>)
    /\ ret.args[1] \in Incomplete
    /\ planItems[ret.args[1]].groupNumber = Str(<<" ">>)
    /\ ret.result.action = "group-complete"

\* C11: the driver performs each set of each item exactly once, after which
\* getNextAction() returns {complete}; and the driver terminates.
DriverDone == driver.pc = "done"

C11_EverySetOnceThenComplete ==
    /\ [](DriverDone =>
              /\ Returned("getNextAction") /\ ret.result.action = "complete"
              /\ \A i \in Indices : driver.performed[i] = totalSets(i))
    /\ <>DriverDone

\* C12: on an ungrouped plan of N items of S sets each, the stepwise driver
\* sees {complete} from getNextAction() after exactly N * S completeSet calls
\* and not before.
UniformUngrouped(S) ==
    \A i \in Indices : ~Grouped(i) /\ planItems[i].sets = Num(S)

C12_CompleteAfterAllSets ==
    \A S \in 1..MaxSets :
        (driver.stepwise /\ UniformUngrouped(S)) =>
            /\ driver.completions <= Cardinality(Indices) * S
            /\ Returned("getNextAction") =>
                   (ret.result.action = "complete"
                        <=> driver.completions = Cardinality(Indices) * S)

\* The stepwise driver is done with a plan of two items or more of MaxSets sets.
C12_Witness ==
    /\ driver.stepwise
    /\ UniformUngrouped(MaxSets)
    /\ Cardinality(Indices) >= 2
    /\ DriverDone
    /\ driver.completions = Cardinality(Indices) * MaxSets

\* C13: for a group whose members are separated by an ungrouped item,
\* completeGroupRound at the end of a full round returns group-complete
\* exactly when no member has a set left, and rest-then-continue otherwise,
\* with the restSeconds of the last member executed; group-complete comes
\* after R - 1 rest-then-continue results, R the largest totalSets of a member.
Separated(id) ==
    \E i \in Members(id), j \in Indices, k \in Members(id) :
        i < j /\ j < k /\ ~Grouped(j)

\* restSeconds as the plan gives it: restSec, and 60 when it is missing or not a number.
restSeconds(i) == IF planItems[i].restSec.t = "num" THEN planItems[i].restSec.n ELSE 60

C13_RoundResults ==
    (driver.pc \in {"next", "round"} /\ Returned("completeGroupRound")
        /\ Separated(driver.groupNumber)) =>
        LET members == Members(driver.groupNumber)
            R == Highest({totalSets(i) : i \in members})
        IN /\ ret.result.action = "group-complete"
                  <=> \A i \in members : completedSets[i] >= totalSets(i)
           /\ ret.result.action = "rest-then-continue" =>
                  ret.result.restSeconds = restSeconds(ret.args[1])
           /\ ret.result.action = "group-complete" => driver.rests = R - 1

\* C14: reset() returns every completedSets[i] to 0, after which every
\* operation of the engine gives the result it gives on an engine freshly
\* constructed for the same plan; and a step that lowers a completed-set count
\* is a reset.
FreshSets == [i \in Indices |-> 0]

C14_ResetRestoresFresh ==
    [][/\ ret'.op = "reset" =>
            /\ completedSets' = FreshSets
            /\ getNextActionOf(planItems', completedSets')
                   = getNextActionOf(planItems, FreshSets)
            /\ getStateOf(planItems', completedSets') = getStateOf(planItems, FreshSets)
            /\ \A g \in GroupValues :
                   /\ getNextGroupActionOf(planItems', completedSets', g)
                          = getNextGroupActionOf(planItems, FreshSets, g)
                   /\ \A i \in IndexArgs :
                          completeGroupRoundOf(planItems', completedSets', i, g)
                              = completeGroupRoundOf(planItems, FreshSets, i, g)
            /\ \A i \in IndexArgs :
                   completeSetOf(planItems', completedSets', i)
                       = completeSetOf(planItems, FreshSets, i)
       /\ (\E i \in Indices : completedSets'[i] < completedSets[i]) => ret'.op = "reset"
      ]_vars

\* A reset has returned on a plan with an item of two sets or more.
C14_Witness ==
    /\ Returned("reset")
    /\ \E i \in Indices : totalSets(i) >= 2 /\ completedSets[i] = 0

\* C15: on the empty plan getNextAction() returns {complete} in every state,
\* whatever completeSet calls came before, and validateGroupConfiguration
\* returns isValid = true with no issue.
C15_EmptyPlan ==
    Indices = {} =>
        /\ Returned("getNextAction") => ret.result = [action |-> "complete"]
        /\ Returned("validateGroupConfiguration") =>
               ret.result.isValid /\ ret.result.issues = <<>>

C15_Witness == Indices = {} /\ Returned("getNextAction")

\* C16: validateGroupConfiguration emits exactly one issue, of severity
\* warning, for a trimmed groupId whose member count is below
\* lastIndex - firstIndex + 1 and none for any other group; isValid is true,
\* with zero issues, exactly when every group occupies a contiguous index range.
GroupIds == {TrimmedId(planItems[i].groupNumber) : i \in Indices} \ {<<>>}

SpanOf(id) == Lowest(Members(id))..Highest(Members(id))

Interleaved(id) == Cardinality(Members(id)) < Highest(Members(id)) - Lowest(Members(id)) + 1

Issues == ret.result.issues

IssuesFor(id) == {k \in 1..Len(Issues) : Issues[k].groupId = id}

Inserted(g1, g2) ==
    /\ g1 # g2
    /\ \E i \in Members(g1), j \in Members(g2), k \in Members(g1) : i < j /\ j < k

\* The indices cited by the issue at position k of the issues.
Cited(k) ==
    LET gaps == Issues[k].details.interleavedItems IN
    {gaps[n].index : n \in 1..Len(gaps)}

OwnGroupText(i) ==
    IF Blank(planItems[i].groupNumber) THEN NoneText
    ELSE TrimmedId(planItems[i].groupNumber)

C18_IssueDetails ==
    Returned("validateGroupConfiguration") =>
        \A k \in 1..Len(Issues) :
            LET id == Issues[k].groupId
                details == Issues[k].details
                gaps == details.interleavedItems
            IN /\ details.span = <<Lowest(Members(id)), Highest(Members(id))>>
               /\ details.groupItemCount = Cardinality(Members(id))
               /\ details.spaceOccupied = Highest(Members(id)) - Lowest(Members(id)) + 1
               /\ Cited(k) = SpanOf(id) \ Members(id)
               /\ \A n \in 1..(Len(gaps) - 1) : gaps[n].index < gaps[n + 1].index
               /\ \A n \in 1..Len(gaps) : gaps[n].group = OwnGroupText(gaps[n].index)
               /\ Len(gaps) >= 1
               /\ Len(gaps) = details.spaceOccupied - details.groupItemCount

\* C19: getNextAction, getNextGroupAction, completeGroupRound,
\* getGroupExercises, isGrouped and getState leave the completed-set map as it
\* was, and the call made again with the same arguments returns the same result.
QueryOps ==
    {"getNextAction", "getNextGroupAction", "completeGroupRound",
     "getGroupExercises", "isGrouped", "getState"}

\* What the call `call` returns on the plan items with the completion map done.
ResultOf(items, done, call) ==
    CASE call.op = "getNextAction" -> getNextActionOf(items, done)
      [] call.op = "getNextGroupAction" -> getNextGroupActionOf(items, done, call.args[1])
      [] call.op = "completeGroupRound" ->
            completeGroupRoundOf(items, done, call.args[1], call.args[2])
      [] call.op = "getGroupExercises" -> getGroupExercisesOf(items, call.args[1])
      [] call.op = "isGrouped" -> isGroupedOf(items, call.args[1])
      [] call.op = "getState" -> getStateOf(items, done)

C19_QueriesChangeNothing ==
    [][ret'.op \in QueryOps =>
           /\ completedSets' = completedSets
           /\ planItems' = planItems
           /\ ResultOf(planItems', completedSets', ret') = ret'.result
      ]_vars

\* completeGroupRound has returned after part of a round: one member of the
\* group has a set done, another member has none.
C19_Witness ==
    /\ Returned("completeGroupRound")
    /\ LET id == TrimmedId(ret.args[2]) IN
       /\ id # <<>>
       /\ \E i, j \in Members(id) :
              i < j /\ completedSets[i] = 1 /\ completedSets[j] = 0 /\ totalSets(j) >= 1

MembersNow(id) ==
    {i \in DOMAIN driver.items : TrimmedId(driver.items[i].groupNumber) = id}

C21_MembershipIsLive ==
    /\ Returned("getGroupExercises") =>
           LET id == TrimmedId(ret.args[1]) IN
           /\ Ascending(ret.result)
           /\ Range(ret.result) = IF id = <<>> THEN {} ELSE MembersNow(id)
    /\ (Returned("getNextAction") /\ ret.result.action = "group-superset-start") =>
           LET listed == ret.result.groupExercises IN
           /\ ret.result.groupNumber # <<>>
           /\ {listed[k].index : k \in 1..Len(listed)} = MembersNow(ret.result.groupNumber)
           /\ ret.result.currentExerciseIndex \in MembersNow(ret.result.groupNumber)
    /\ Returned("completeGroupRound") =>
           LET id == TrimmedId(ret.args[2])
               open == {i \in MembersNow(id) : id # <<>> /\ completedSets[i] < totalSets(i)}
           IN /\ ret.result.action = "group-complete" <=> open = {}
              /\ open # {} => ret.result.exerciseIndex = Lowest(MembersNow(id))

\* getGroupExercises has returned a group of two members or more after the
\* caller changed a groupNumber.
C21_Witness ==
    /\ driver.pc = "caller"
    /\ driver.changed
    /\ Returned("getGroupExercises")
    /\ Len(ret.result) >= 2

\* C25: the validator and the engine agree on group membership: for every
\* groupId the validator finds, the indices it collects are the list
\* getGroupExercises(groupId) returns, and the validator takes an item as
\* grouped exactly when isGrouped(index) is true; and the validator changes
\* neither the plan nor the completed sets.
C25_ValidatorAgreesWithEngine ==
    [][ret'.op = "validateGroupConfiguration" =>
           /\ planItems' = planItems
           /\ completedSets' = completedSets
           /\ LET keys == GroupMapKeys(planItems', PlanLen(planItems')) IN
              \A k \in 1..Len(keys) :
                  GroupMapEntry(planItems', keys[k]).indices
                      = getGroupExercisesOf(planItems', Str(keys[k]))
           /\ \A i \in DOMAIN planItems' :
                  ValidatorGroupId(planItems'[i]) # <<>> <=> isGroupedOf(planItems', i)
      ]_vars

\* The validator has run on a plan with a padded member of a group, an
\* unpadded member of the same group and an item with a blank groupNumber.
C25_Witness ==
    /\ Returned("validateGroupConfiguration")
    /\ \E i, j, k \in Indices :
           /\ planItems[i].groupNumber = Str(<<" ", "a">>)
           /\ planItems[j].groupNumber = Str(<<"a">>)
           /\ planItems[k].groupNumber = Str(<<" ">>)

(***************************************************************************)
(* The simulation scripts against the engine.                              *)
(***************************************************************************)
Script == driver.script

Timeline == buildPlanTimeline(planItems)

\* A timeline loop has ended, or has gone through maxIterations iterations
\* without ending.
LoopOver == Script.pc = "done" \/ Script.iterations >= maxIterations

\* One of the two timeline loops runs on the plan of one of the two scripts.
TimelineRun ==
    /\ planItems \in {EchoPlan, NestedPlan}
    /\ Script.kind \in {"echo", "nested"}

\* C22: moving to the next member by its position in the group's own list
\* (getNextExercise of SupersetExecutorV2Sim, driven over the per-set
\* timeline) is not correct under interleaving: on the plans of the two
\* simulation scripts, which are interleaved, either timeline loop runs some
\* set more than once or ends without having run some set, whereas the driver
\* of the rescanning engine has performed every set of the same plan exactly
\* once when it is done.
C22_PositionalStrategyMisruns ==
    TimelineRun =>
        /\ \E id \in GroupIds : Interleaved(id)
        /\ driver.pc = "done" => \A i \in Indices : driver.performed[i] = totalSets(i)
        /\ LoopOver =>
               \E k \in 1..Len(Timeline) :
                   \/ Script.runs[k] > 1
                   \/ Script.pc = "done" /\ Script.runs[k] = 0

\* The loop of simulate-nested-groups.mjs has ended on its own plan, after
\* the engine's driver finished the same plan.
C22_Witness ==
    /\ planItems = NestedPlan
    /\ Script.kind = "nested"
    /\ Script.pc = "done"
    /\ driver.pc = "done"
    /\ driver.completions = Len(Timeline)

\* C23: in the nested-groups simulation (plan test1 g1, test2 g1,
\* groupTwo_item1 g2, test3 g1, groupTwo_item2 g2) the V2 executor takes
\* group 1 to contain test1, test2, test3, groupTwo_item1 and groupTwo_item2,
\* and the loop visits the items in the order test1, test2, groupTwo_item1,
\* test3, groupTwo_item2.
C23_NestedGroupsAsAnalysed ==
    (planItems = NestedPlan /\ Script.kind = "nested" /\ Script.pc = "done") =>
        /\ Range(findGroupForItem(planItems, 0)) = 0..4
        /\ Script.visits = <<0, 1, 2, 3, 4>>

\* C24: the loop of simulate-group2-with-echo.mjs, which has no iteration
\* guard, terminates on its plan: ti reaches the end of the timeline (it
\* does so before maxIterations iterations), and no timeline entry of an
\* item that is not grouped is run more than once on the way.
C24_EchoLoopTerminates ==
    (planItems = EchoPlan /\ Script.kind = "echo") =>
        /\ Script.iterations < maxIterations
        /\ \A k \in 1..Len(Timeline) :
               ~Grouped(Timeline[k].itemIndex) => Script.runs[k] <= 1

\* The numbered set lines of the trace of simulate(), in order.
SetLines == SelectSeq(Script.trace, LAMBDA e : e.line = "set")

\* The position in the trace of its k-th set line.
KthSet(k) ==
    CHOOSE p \in 1..Len(Script.trace) :
        /\ Script.trace[p].line = "set"
        /\ Cardinality({q \in 1..p : Script.trace[q].line = "set"}) = k

\* simulate() printed a rest line for the round that ended with the k-th set.
RoundRestAfter(k) ==
    /\ KthSet(k) < Len(Script.trace)
    /\ Script.trace[KthSet(k) + 1].line = "round-rest"

\* The engine's driver performs the sets in the order of the trace of simulate().
C26_SameOrder ==
    (Script.kind = "plan" /\ Script.pc = "done") =>
        /\ driver.completions <= Len(SetLines)
        /\ Returned("completeSet") => SetLines[driver.completions].idx = ret.args[1]
        /\ driver.pc = "done" => driver.completions = Len(SetLines)

\* simulate() printed a rest after exactly the rounds for which
\* completeGroupRound returns rest-then-continue, with the same duration.
C26_SameRests ==
    (Script.kind = "plan" /\ Script.pc = "done" /\ Returned("completeGroupRound")) =>
        /\ RoundRestAfter(driver.completions) <=> ret.result.action = "rest-then-continue"
        /\ RoundRestAfter(driver.completions) =>
               Script.trace[KthSet(driver.completions) + 1].rest = Num(ret.result.restSeconds)

\* C26: on every plan with positive integer set counts and trimmed group
\* ids, simulate() of simulate-plan.js executes the sets in the order in
\* which the driver of SupersetExecutorV3 performs them (getNextAction,
\* completeSet, and completeGroupRound at the end of each full round), and
\* it schedules a rest after exactly the rounds for which completeGroupRound
\* returns rest-then-continue, with the same duration.
C26_SimulationMatchesEngine == C26_SameOrder /\ C26_SameRests

====
